---- MODULE Spec2Model ----
(***************************************************************************)
(* The find-imports analyzer (src/unnamed/part_002): one depth-first walk  *)
(* of a parsed file that collects, per import / re-export / dynamic        *)
(* import, an entry { importSpecifiers, source }, followed by the          *)
(* asynchronous source-path normalization and the keepInternalSources      *)
(* filter of FindImportsSwcAnalyzer.analyzeFile.                           *)
(*                                                                         *)
(* JavaScript values are modelled as follows.                              *)
(*   - an object (an AST node, an entry) is a record; a property the       *)
(*     object does not have is a field the record does not have;           *)
(*   - undefined / null is the string Undefined;                           *)
(*   - a binding name is a string ("" is the empty string-literal name);   *)
(*   - a module specifier string is the sequence of its "/"-separated      *)
(*     segments: "./a.js" is <<".", "a.js">>, "pkg" is <<"pkg">>, the empty *)
(*     string is <<>>.                                                     *)
(*                                                                         *)
(* The second part is LionInputStepper                                     *)
(* (src/packages/ui/components/input-stepper/src/LionInputStepper.js): the *)
(* element with its reactive properties, the `values` cache the handlers   *)
(* read, the two spinner buttons and the pending Lit update.               *)
(*   - Infinity (min / max not set) is a number above every number the     *)
(*     model computes;                                                     *)
(*   - modelValue is <<>> when empty and <<n>> when it holds n; the        *)
(*     template string `${n}` that __increment / __decrement assign is     *)
(*     read back as n by every comparison and by the parser that           *)
(*     _proxyInputEvent triggers, so it is kept as n;                      *)
(*   - aria attributes and focus are outputs no property here reads and    *)
(*     are left out.                                                       *)
(***************************************************************************)
EXTENDS Integers, Sequences, FiniteSets, TLC

VARIABLES
  ast,              \* ast[c]: the Program body handed to invocation c
  cfg,              \* cfg[c]: context.analyzerCfg of invocation c
  pc,               \* pc[c]: where invocation c stands
  todo,             \* todo[c]: nodes the walker of invocation c still has to visit
  transformedFile,  \* transformedFile[c]: the local accumulator of invocation c
  received,         \* received[c]: what the caller of invocation c has been handed
  discarded,        \* discarded[c]: the caller dropped the in-flight promise
  log,              \* the LogService sink, shared by all invocations
  running,          \* the invocation executing synchronous code, 0 when none
  el,               \* the LionInputStepper element: its properties, cache and buttons
  completed         \* the stepper handler that ran last

analyzerVars == <<ast, cfg, pc, todo, transformedFile, received, discarded, log, running>>
stepperVars == <<el, completed>>
vars == <<ast, cfg, pc, todo, transformedFile, received, discarded, log, running, el, completed>>

-----------------------------------------------------------------------------
(* Bounds *)

MaxDecls == 2       \* statements per file in Spec
MaxSpecs == 2       \* specifiers per declaration in SpecExtract
NumCalls == 2       \* analyzeFile invocations in flight together

Calls == 1..NumCalls

-----------------------------------------------------------------------------
(* JavaScript property access *)

Undefined == "undefined"

\* obj.f
Prop(obj, f) == IF f \in DOMAIN obj THEN obj[f] ELSE Undefined

\* obj.child?.f
OptProp(obj, child, f) == IF child \in DOMAIN obj THEN Prop(obj[child], f) ELSE Undefined

\* truthiness of a string-or-undefined value
Truthy(v) == v # Undefined /\ v # ""

\* a || b
JsOr(a, b) == IF Truthy(a) THEN a ELSE b

Has(obj, f) == f \in DOMAIN obj

-----------------------------------------------------------------------------
(* Sentinel tags *)

TagDefault == "[default]"
TagAll == "[*]"
TagFile == "[file]"
SourceVariable == <<"[variable]">>

-----------------------------------------------------------------------------
(* Extraction helpers of part_002 *)

\* isLiteral(node): node?.type === 'Literal' || node?.type === 'StringLiteral'
isLiteral(node) == node.type = "Literal" \/ node.type = "StringLiteral"

getSpecifierValue(s) ==
  JsOr(OptProp(s, "imported", "value"),
  JsOr(OptProp(s, "imported", "name"),
  JsOr(OptProp(s, "orig", "value"),
  JsOr(OptProp(s, "orig", "name"),
  JsOr(OptProp(s, "local", "value"),
  JsOr(OptProp(s, "local", "name"),
  JsOr(OptProp(s, "exported", "value"),
       OptProp(s, "exported", "name"))))))))

SpecifierTag(s) ==
  IF \/ s.type = "ImportDefaultSpecifier"
     \/ s.type = "ExportDefaultSpecifier"
     \/ /\ s.type = "ExportSpecifier"
        /\ \/ OptProp(s, "exported", "value") = "default"
           \/ OptProp(s, "exported", "name") = "default"
  THEN TagDefault
  ELSE IF s.type = "ImportNamespaceSpecifier" \/ s.type = "ExportNamespaceSpecifier"
       THEN TagAll
       ELSE getSpecifierValue(s)

\* (node.specifiers || []).map(...)
getImportOrReexportsSpecifiers(node) ==
  LET specifiers == IF Has(node, "specifiers") THEN node.specifiers ELSE <<>>
  IN  [i \in 1..Len(specifiers) |-> SpecifierTag(specifiers[i])]

\* getAssertionType(node): the value of the declaration's `type` attribute
getAssertionType(node) ==
  IF Has(node, "attributes") /\ \E i \in 1..Len(node.attributes) : node.attributes[i].key = "type"
  THEN LET i == CHOOSE j \in 1..Len(node.attributes) : node.attributes[j].key = "type"
       IN  node.attributes[i].value
  ELSE Undefined

\* { importSpecifiers, source } plus entry.assertionType when there is one
Entry(importSpecifiers, source, assertionType) ==
  IF Truthy(assertionType)
  THEN [importSpecifiers |-> importSpecifiers, source |-> source, assertionType |-> assertionType]
  ELSE [importSpecifiers |-> importSpecifiers, source |-> source]

-----------------------------------------------------------------------------
(* The visitors of findImportsPerAstFile.  Each yields what the visitor    *)
(* does to the accumulator: the entries it pushes, or that it threw.       *)

Pushes(entries) == [threw |-> FALSE, entries |-> entries]
Throws == [threw |-> TRUE, entries |-> <<>>]
Nothing == Pushes(<<>>)

ImportDeclaration(node) ==
  LET specs == getImportOrReexportsSpecifiers(node)
      importSpecifiers == IF Len(specs) = 0 THEN <<TagFile>> ELSE specs
  IN  IF ~Has(node, "source")
      THEN Throws   \* node.source.value on undefined
      ELSE Pushes(<<Entry(importSpecifiers, node.source.value, getAssertionType(node))>>)

\* variant without the `if (!node.source) return` guard, reading node.source?.value || ''
ExportNamedDeclarationUnguarded(node) ==
  Pushes(<<Entry(getImportOrReexportsSpecifiers(node),
                 IF Has(node, "source") THEN node.source.value ELSE <<>>,
                 getAssertionType(node))>>)

ExportNamedDeclaration(node) ==
  IF ~Has(node, "source")
  THEN Nothing
  ELSE Pushes(<<Entry(getImportOrReexportsSpecifiers(node), node.source.value,
                      getAssertionType(node))>>)

ExportAllDeclaration(node) ==
  IF ~Has(node, "source")
  THEN Nothing
  ELSE Pushes(<<Entry(<<TagAll>>, node.source.value, getAssertionType(node))>>)

CallExpression(node) ==
  IF OptProp(node, "callee", "type") # "Import"
  THEN Nothing
  ELSE IF Len(node.arguments) = 0
       THEN Throws   \* node.arguments[0].expression on undefined
       ELSE LET dynamicImportExpression == node.arguments[1].expression
                source == IF isLiteral(dynamicImportExpression)
                          THEN dynamicImportExpression.value
                          ELSE SourceVariable
            IN  Pushes(<<Entry(<<TagDefault>>, source, Undefined)>>)

ExpressionStatement(node) ==
  IF node.expression.type # "ImportExpression"
  THEN Nothing
  ELSE LET dynamicImportExpression == node.expression
           source == IF isLiteral(dynamicImportExpression.source)
                     THEN dynamicImportExpression.source.value
                     ELSE SourceVariable
       IN  Pushes(<<Entry(<<TagDefault>>, source, Undefined)>>)

VisitorTypes ==
  {"ImportDeclaration", "ExportNamedDeclaration", "ExportAllDeclaration",
   "CallExpression", "ExpressionStatement"}

-----------------------------------------------------------------------------
(* The walker (oxcTraverse): depth-first, document order.  Children(node)  *)
(* are the child nodes it descends into, in source order.                  *)

ArgumentExpressions(arguments) == [i \in 1..Len(arguments) |-> arguments[i].expression]

Children(node) ==
  CASE node.type \in {"ImportDeclaration", "ExportNamedDeclaration", "ExportAllDeclaration"} ->
         (IF Has(node, "specifiers") THEN node.specifiers ELSE <<>>)
           \o (IF Has(node, "source") THEN <<node.source>> ELSE <<>>)
    [] node.type = "ExpressionStatement" -> <<node.expression>>
    [] node.type = "AwaitExpression" -> <<node.argument>>
    [] node.type = "ImportExpression" -> <<node.source>>
    [] node.type = "CallExpression" -> <<node.callee>> \o ArgumentExpressions(node.arguments)
    [] OTHER -> <<>>

-----------------------------------------------------------------------------
(* Path normalization and classification (normalizeSourcePaths,            *)
(* isRelativeSourcePath)                                                   *)

Null == "null"
RootPath == "/project"
RelativePath == <<"src", "f.js">>     \* context.relativePath

\* the files of the target project, root-relative
ProjectFiles == {<<"src", "f.js">>, <<"src", "a.js">>, <<"src", "a.json">>, <<"b.js">>}

\* file names that carry an extension, and the conventional one for those that do not
HasExtension(name) == name \in {"f.js", "a.js", "a.json", "b.js"}
WithExtension(name) == CASE name = "b" -> "b.js" [] name = "c" -> "c.js" [] OTHER -> name

\* a module reference beginning with ./ or ../
isRelativeSourcePath(source) == Len(source) > 0 /\ Head(source) \in {".", ".."}

Dirname(path) == SubSeq(path, 1, Len(path) - 1)

RECURSIVE ResolveSegments(_, _)
ResolveSegments(dir, source) ==
  IF source = <<>> THEN dir
  ELSE CASE Head(source) = "." -> ResolveSegments(dir, Tail(source))
         [] Head(source) = ".." ->
              ResolveSegments(IF dir = <<>> THEN <<>> ELSE Dirname(dir), Tail(source))
         [] OTHER -> ResolveSegments(Append(dir, Head(source)), Tail(source))

\* the literal path when it names a file or has an extension; else the conventional
\* extension when that file exists; else the best-effort literal path
ResolveFile(path) ==
  LET name == path[Len(path)]
      guess == Append(Dirname(path), WithExtension(name))
  IN  IF path \in ProjectFiles \/ HasExtension(name) THEN path
      ELSE IF guess \in ProjectFiles THEN guess ELSE path

NormalizeSource(source, relativePath, targetProjectPath) ==
  IF ~isRelativeSourcePath(source)
  THEN source
  ELSE IF targetProjectPath = Null
       THEN source
       ELSE LET resolved == ResolveFile(ResolveSegments(Dirname(relativePath), source))
            IN  IF resolved = <<>> THEN source ELSE <<".">> \o resolved

normalizeSourcePaths(queryOutput, relativePath, targetProjectPath) ==
  [i \in 1..Len(queryOutput) |->
     [queryOutput[i] EXCEPT !.source = NormalizeSource(@, relativePath, targetProjectPath)]]

-----------------------------------------------------------------------------
(* FindImportsSwcAnalyzer *)

ConfigKeys == {"targetProjectPath", "keepInternalSources"}

\* get config(): the defaults, overridden by this._customConfig
Config(customConfig) ==
  LET defaults == [targetProjectPath |-> Null, keepInternalSources |-> FALSE]
  IN  [k \in ConfigKeys |-> IF k \in DOMAIN customConfig THEN customConfig[k] ELSE defaults[k]]

IsExternal(entry) == ~isRelativeSourcePath(entry.source)

\* variant that filters whatever keepInternalSources says
FilterInternalSourcesAlways(file, keepInternalSources) == SelectSeq(file, IsExternal)

\* if (!keepInternalSources) transformedFile = transformedFile.filter(...)
FilterInternalSources(file, keepInternalSources) ==
  IF ~keepInternalSources THEN SelectSeq(file, IsExternal) ELSE file

-----------------------------------------------------------------------------
(* Inputs: the node shapes the parsers produce.  The "estree" dialect      *)
(* (oxc, babel) names an identifier by `name`, the "swc" dialect by        *)
(* `value`; both give a string literal a `value`.                          *)

Dialects == {"estree", "swc"}

Identifier(d, n) ==
  IF d = "swc" THEN [type |-> "Identifier", value |-> n] ELSE [type |-> "Identifier", name |-> n]

StringLiteral(d, v) ==
  IF d = "swc" THEN [type |-> "StringLiteral", value |-> v] ELSE [type |-> "Literal", value |-> v]

\* a ModuleExportName: an identifier, or a string literal for a name no identifier can spell
ModuleExportName(d, n) == IF n = "" THEN StringLiteral(d, n) ELSE Identifier(d, n)

SrcRelative == <<".", "a.js">>
SrcJson == <<".", "a.json">>
SrcParent == <<"..", "b">>
SrcUnresolved == <<".", "c">>
SrcBare == <<"pkg">>
SrcEmpty == <<>>

\* What a specifier says, apart from its dialect: `a as b` (b = a when not aliased)
DefaultSpec == [kind |-> "default"]
NamespaceSpec == [kind |-> "namespace"]
NamedSpec(a, b) == [kind |-> "named", a |-> a, b |-> b]

\* `import { a as b }` binds an identifier b; `export { a as b } from` may export as default
ImportableSpecs ==
  {DefaultSpec, NamespaceSpec, NamedSpec("x", "x"), NamedSpec("x", "y"),
   NamedSpec("default", "y"), NamedSpec("", "y")}
ExportOnlySpecs == {NamedSpec("x", "default"), NamedSpec("default", "default")}

ImportSpecifierNode(d, s) ==
  CASE s.kind = "default" -> [type |-> "ImportDefaultSpecifier", local |-> Identifier(d, "d")]
    [] s.kind = "namespace" -> [type |-> "ImportNamespaceSpecifier", local |-> Identifier(d, "ns")]
    [] OTHER ->
         IF d = "swc" /\ s.a = s.b
         THEN [type |-> "ImportSpecifier", local |-> Identifier(d, s.b)]
         ELSE [type |-> "ImportSpecifier", imported |-> ModuleExportName(d, s.a),
               local |-> Identifier(d, s.b)]

ExportSpecifierNode(d, s) ==
  CASE s.kind = "default" -> [type |-> "ExportDefaultSpecifier", exported |-> Identifier(d, "d")]
    [] s.kind = "namespace" ->
         IF d = "swc"
         THEN [type |-> "ExportNamespaceSpecifier", name |-> Identifier(d, "ns")]
         ELSE [type |-> "ExportNamespaceSpecifier", exported |-> Identifier(d, "ns")]
    [] OTHER ->
         IF d = "swc"
         THEN IF s.a = s.b
              THEN [type |-> "ExportSpecifier", orig |-> ModuleExportName(d, s.a)]
              ELSE [type |-> "ExportSpecifier", orig |-> ModuleExportName(d, s.a),
                    exported |-> ModuleExportName(d, s.b)]
         ELSE [type |-> "ExportSpecifier", local |-> ModuleExportName(d, s.a),
               exported |-> ModuleExportName(d, s.b)]

ImportNodes(d, specs) == [i \in 1..Len(specs) |-> ImportSpecifierNode(d, specs[i])]
ExportNodes(d, specs) == [i \in 1..Len(specs) |-> ExportSpecifierNode(d, specs[i])]

TypeAttribute(t) == <<[key |-> "type", value |-> t]>>

\* import <specs> from <source>
Import(d, specs, source) ==
  [type |-> "ImportDeclaration", specifiers |-> ImportNodes(d, specs),
   source |-> StringLiteral(d, source)]

\* export <specs> from <source>
Reexport(d, specs, source) ==
  [type |-> "ExportNamedDeclaration", specifiers |-> ExportNodes(d, specs),
   source |-> StringLiteral(d, source)]

WithType(node, t) ==
  [f \in DOMAIN node \cup {"attributes"} |-> IF f = "attributes" THEN TypeAttribute(t) ELSE node[f]]

\* export * from <source>
ExportAll(d, source) == [type |-> "ExportAllDeclaration", source |-> StringLiteral(d, source)]

\* oxc: import(<argument>) is an ImportExpression
ImportExpression(argument) == [type |-> "ImportExpression", source |-> argument]

\* swc: import(<argument>) is a call whose callee is the Import keyword node
ImportCall(arguments) ==
  [type |-> "CallExpression", callee |-> [type |-> "Import"],
   arguments |-> [i \in 1..Len(arguments) |-> [expression |-> arguments[i]]]]

Statement(expression) == [type |-> "ExpressionStatement", expression |-> expression]
Await(expression) == [type |-> "AwaitExpression", argument |-> expression]

\* import './a.js'
BareImport == Import("estree", <<>>, SrcRelative)
\* import d, { x as y } from 'pkg'
MixedImport == Import("estree", <<DefaultSpec, NamedSpec("x", "y")>>, SrcBare)
\* import d from './a.json' with { type: 'json' }
JsonImport == WithType(Import("estree", <<DefaultSpec>>, SrcJson), "json")
\* import ''
EmptySourceImport == Import("estree", <<>>, SrcEmpty)
\* an ImportDeclaration node without its source field
SourcelessImport == [type |-> "ImportDeclaration", specifiers |-> <<>>]
\* export const x = 1
LocalExport == [type |-> "ExportNamedDeclaration", specifiers |-> <<>>]
\* export { x } from './c'
NamedReexport == Reexport("estree", <<NamedSpec("x", "x")>>, SrcUnresolved)
\* export {} from 'pkg'
EmptyReexport == Reexport("estree", <<>>, SrcBare)
\* export * from '../b'
StarReexport == ExportAll("estree", SrcParent)
\* an ExportAllDeclaration node without its source field
SourcelessExportAll == [type |-> "ExportAllDeclaration"]
\* import('./a.js');
OxcDynamicLiteral == Statement(ImportExpression(StringLiteral("estree", SrcRelative)))
\* import(path);
OxcDynamicVariable == Statement(ImportExpression(Identifier("estree", "path")))
\* await import('pkg');
OxcDynamicAwaited == Statement(Await(ImportExpression(StringLiteral("estree", SrcBare))))
\* import('pkg');  (swc)
SwcDynamicLiteral == Statement(ImportCall(<<StringLiteral("swc", SrcBare)>>))
\* import(path);  (swc)
SwcDynamicVariable == Statement(ImportCall(<<Identifier("swc", "path")>>))
\* a dynamic-import call node without arguments (swc)
SwcDynamicNoArguments == Statement(ImportCall(<<>>))
\* foo();
PlainCall ==
  Statement([type |-> "CallExpression", callee |-> Identifier("estree", "foo"), arguments |-> <<>>])

StatementPool ==
  {BareImport, MixedImport, JsonImport, EmptySourceImport, SourcelessImport,
   LocalExport, NamedReexport, EmptyReexport, StarReexport, SourcelessExportAll,
   OxcDynamicLiteral, OxcDynamicVariable, OxcDynamicAwaited,
   SwcDynamicLiteral, SwcDynamicVariable, SwcDynamicNoArguments, PlainCall}


SeqsUpTo(S, n) == UNION {[1..k -> S] : k \in 0..n}

Files == SeqsUpTo(StatementPool, MaxDecls)
\* the files analyzed concurrently: between them, one of every kind of node
ConcFiles ==
  {<<>>, <<BareImport>>, <<SourcelessImport>>, <<MixedImport, StarReexport>>,
   <<NamedReexport, SwcDynamicLiteral>>}

EmptyConfig == [k \in {} |-> Null]
CustomConfigs ==
  {EmptyConfig, [keepInternalSources |-> TRUE], [targetProjectPath |-> RootPath],
   [keepInternalSources |-> TRUE, targetProjectPath |-> RootPath]}
ConcCustomConfigs == {EmptyConfig, [keepInternalSources |-> TRUE, targetProjectPath |-> RootPath]}

\* an import and the re-export of the same specifiers from the same source
Twins(d, specs, source) == <<Import(d, specs, source), Reexport(d, specs, source)>>

ExtractFiles ==
  {Twins(d, specs, source) :
     d \in Dialects, specs \in SeqsUpTo(ImportableSpecs, MaxSpecs), source \in {SrcRelative, SrcBare}}
  \cup {<<WithType(Import(d, specs, SrcJson), "json"), WithType(Reexport(d, specs, SrcJson), "json")>> :
     d \in Dialects, specs \in SeqsUpTo(ImportableSpecs, 1)}
  \cup {<<Reexport(d, specs, SrcBare)>> :
     d \in Dialects, specs \in SeqsUpTo(ImportableSpecs \cup ExportOnlySpecs, MaxSpecs)}
  \cup {<<s>> : s \in StatementPool}

-----------------------------------------------------------------------------
(* LionInputStepper: the element and its methods.                          *)

MaxValue == 3       \* modelValue, min and max range over -MaxValue..MaxValue
MaxStep == 2        \* step ranges over 1..MaxStep

Numbers == (0 - MaxValue)..MaxValue
Steps == 1..MaxStep

\* Infinity: above every value and every newValue the handlers compute
Infinity == 4 * (MaxValue + MaxStep)

\* a % b of JavaScript for b > 0: the remainder takes the sign of the dividend
Rem(a, b) == IF a >= 0 THEN a % b ELSE 0 - ((0 - a) % b)

\* Math.floor(a / b) for b > 0
Floor(a, b) == a \div b

PropertyNames == {"modelValue", "min", "max", "step"}

\* the element after the constructor ran
Constructed ==
  [modelValue |-> <<>>,
   min |-> Infinity,
   max |-> Infinity,
   step |-> 1,
   values |-> [max |-> Infinity, min |-> Infinity, step |-> 1],
   decrementDisabled |-> FALSE,
   incrementDisabled |-> FALSE,
   changedProperties |-> {}]

\* a reactive property is assigned: the value is stored and an update is requested
SetProperty(e, name, v) ==
  [e EXCEPT ![name] = v, !.changedProperties = @ \cup {name}]

\* get currentValue() { return this.modelValue || 0; }
currentValue(e) ==
  IF e.modelValue = <<>> \/ e.modelValue[1] = 0 THEN 0 ELSE e.modelValue[1]

\* variant that disables a button only once the value is past the bound
toggleSpinnerButtonsStateStrict(e) ==
  LET min == e.values.min
      max == e.values.max
  IN  [e EXCEPT !.decrementDisabled = currentValue(e) < min /\ min # Infinity,
                !.incrementDisabled = currentValue(e) > max /\ max # Infinity]

\* __toggleSpinnerButtonsState()
toggleSpinnerButtonsState(e) ==
  LET min == e.values.min
      max == e.values.max
  IN  [e EXCEPT !.decrementDisabled = currentValue(e) <= min /\ min # Infinity,
                !.incrementDisabled = currentValue(e) >= max /\ max # Infinity]

\* const stepMin = min !== Infinity ? min : 0;
stepMin(e) == IF e.values.min # Infinity THEN e.values.min ELSE 0

\* newValue of __increment
incrementValue(e) ==
  LET step == e.values.step
  IN  IF Rem(currentValue(e) + stepMin(e), step) # 0
      THEN Floor(currentValue(e), step) * step + step + Rem(stepMin(e), step)
      ELSE currentValue(e) + step

\* newValue of __decrement
decrementValue(e) ==
  LET step == e.values.step
  IN  IF Rem(currentValue(e) + stepMin(e), step) # 0
      THEN Floor(currentValue(e), step) * step + Rem(stepMin(e), step)
      ELSE currentValue(e) - step

\* variant of the guard of __increment that lets every newValue through
incrementWritesAlways(e) == TRUE

\* if (newValue <= max || max === Infinity)
incrementWrites(e) ==
  incrementValue(e) <= e.values.max \/ e.values.max = Infinity

\* if (newValue >= min || min === Infinity)
decrementWrites(e) ==
  decrementValue(e) >= e.values.min \/ e.values.min = Infinity

\* __increment()
increment(e) ==
  LET min == e.values.min
      newValue == incrementValue(e)
  IN  IF incrementWrites(e)
      THEN toggleSpinnerButtonsState(
             SetProperty(e, "modelValue",
                         IF newValue < min /\ min # Infinity THEN <<min>> ELSE <<newValue>>))
      ELSE e

\* __decrement()
decrement(e) ==
  LET max == e.values.max
      newValue == decrementValue(e)
  IN  IF decrementWrites(e)
      THEN toggleSpinnerButtonsState(
             SetProperty(e, "modelValue",
                         IF newValue > max /\ max # Infinity THEN <<max>> ELSE <<newValue>>))
      ELSE e

Keys == {"ArrowUp", "ArrowDown", "Enter"}

\* __keyDownHandler(ev)
keyDownHandler(e, key) ==
  LET e1 == IF key = "ArrowUp" THEN increment(e) ELSE e
  IN  IF key = "ArrowDown" THEN decrement(e1) ELSE e1

\* connectedCallback()
connectedCallback(e) ==
  toggleSpinnerButtonsState(
    [e EXCEPT !.values = [max |-> e.max, min |-> e.min, step |-> e.step]])

\* updated(changedProperties), after which the pending changes are cleared
updated(e) ==
  LET changedProperties == e.changedProperties
      e1 == IF "modelValue" \in changedProperties THEN toggleSpinnerButtonsState(e) ELSE e
      e2 == IF "min" \in changedProperties
            THEN toggleSpinnerButtonsState([e1 EXCEPT !.values.min = e1.min])
            ELSE e1
      e3 == IF "max" \in changedProperties
            THEN toggleSpinnerButtonsState([e2 EXCEPT !.values.max = e2.max])
            ELSE e2
      e4 == IF "step" \in changedProperties
            THEN [e3 EXCEPT !.values.step = e3.step]
            ELSE e3
  IN  [e4 EXCEPT !.changedProperties = {}]

\* _onChange()
onChange(e) == toggleSpinnerButtonsState(e)

\* no stepper is on the page
NoStepper ==
  /\ el = Constructed
  /\ completed = "constructor"

-----------------------------------------------------------------------------
(* The state machine.  JavaScript runs each synchronous stretch to         *)
(* completion: `running` is the invocation inside one, and analyzeFile     *)
(* yields only at `await normalizeSourcePaths(...)`.                       *)

NoResult == [none |-> TRUE]
Returned(file) == [result |-> file]

LogStarted == "Analyzer \"find-imports\": started findImportsPerAstFile method"

InitWith(files1, configs1, files2, configs2) ==
  /\ \E file \in files1, others \in [Calls \ {1} -> files2] :
       ast = [c \in Calls |-> IF c = 1 THEN file ELSE others[c]]
  /\ \E custom \in configs1, others \in [Calls \ {1} -> configs2] :
       cfg = [c \in Calls |-> Config(IF c = 1 THEN custom ELSE others[c])]
  /\ todo = [c \in Calls |-> <<>>]
  /\ transformedFile = [c \in Calls |-> <<>>]
  /\ received = [c \in Calls |-> NoResult]
  /\ discarded = [c \in Calls |-> FALSE]
  /\ log = <<>>
  /\ running = 0

\* one file analyzed; the other invocations are never made
Init ==
  /\ InitWith(Files, CustomConfigs, {<<>>}, {EmptyConfig})
  /\ NoStepper
  /\ pc = [c \in Calls |-> IF c = 1 THEN "ready" ELSE "absent"]

\* one file of declarations with every specifier shape
InitExtract ==
  /\ InitWith(ExtractFiles, {[keepInternalSources |-> TRUE]}, {<<>>}, {EmptyConfig})
  /\ NoStepper
  /\ pc = [c \in Calls |-> IF c = 1 THEN "ready" ELSE "absent"]

\* the orchestrator analyzes several files concurrently
InitConc ==
  /\ InitWith(ConcFiles, ConcCustomConfigs, ConcFiles, ConcCustomConfigs)
  /\ NoStepper
  /\ pc = [c \in Calls |-> "ready"]

\* variant with the accumulator at module level, shared by the invocations
NewAccumulatorShared(c) ==
  IF \E d \in Calls \ {c} : transformedFile[d] # <<>>
  THEN transformedFile[CHOOSE d \in Calls \ {c} : transformedFile[d] # <<>>]
  ELSE <<>>

\* const transformedFile = [];
NewAccumulator(c) == <<>>

\* analyzeFile is called: findImportsPerAstFile logs and starts the walk at the Program body
AnalyzeFile(c) ==
  /\ pc[c] = "ready"
  /\ running = 0
  /\ running' = c
  /\ log' = Append(log, LogStarted)
  /\ transformedFile' = [transformedFile EXCEPT ![c] = NewAccumulator(c)]
  /\ todo' = [todo EXCEPT ![c] = ast[c]]
  /\ pc' = [pc EXCEPT ![c] = "traverse"]
  /\ UNCHANGED <<el, completed, ast, cfg, received, discarded>>

\* variant with unshift in place of push
PushFront(file, entries) == entries \o file

\* transformedFile.push(entry)
Push(file, entries) == file \o entries

\* The walker takes the next node, runs its visitor and descends.  A visitor that
\* throws ends findImportsPerAstFile and rejects the promise of analyzeFile.
Visit(c, effect) ==
  /\ UNCHANGED <<el, completed, ast, cfg, received, discarded, log>>
  /\ IF effect.threw
     THEN /\ pc' = [pc EXCEPT ![c] = "rejected"]
          /\ running' = 0
          /\ UNCHANGED <<todo, transformedFile>>
     ELSE /\ transformedFile' = [transformedFile EXCEPT ![c] = Push(@, effect.entries)]
          /\ todo' = [todo EXCEPT ![c] = Children(Head(@)) \o Tail(@)]
          /\ UNCHANGED <<pc, running>>

AtNode(c, types) ==
  /\ pc[c] = "traverse"
  /\ running = c
  /\ todo[c] # <<>>
  /\ Head(todo[c]).type \in types

VisitImportDeclaration(c) ==
  /\ AtNode(c, {"ImportDeclaration"})
  /\ Visit(c, ImportDeclaration(Head(todo[c])))

VisitExportNamedDeclaration(c) ==
  /\ AtNode(c, {"ExportNamedDeclaration"})
  /\ Visit(c, ExportNamedDeclaration(Head(todo[c])))

VisitExportAllDeclaration(c) ==
  /\ AtNode(c, {"ExportAllDeclaration"})
  /\ Visit(c, ExportAllDeclaration(Head(todo[c])))

VisitCallExpression(c) ==
  /\ AtNode(c, {"CallExpression"})
  /\ Visit(c, CallExpression(Head(todo[c])))

VisitExpressionStatement(c) ==
  /\ AtNode(c, {"ExpressionStatement"})
  /\ Visit(c, ExpressionStatement(Head(todo[c])))

\* a node of a type no visitor is registered for
NodeTypes ==
  VisitorTypes \cup
  {"Identifier", "Literal", "StringLiteral", "Import", "ImportExpression", "AwaitExpression",
   "ImportSpecifier", "ImportDefaultSpecifier", "ImportNamespaceSpecifier",
   "ExportSpecifier", "ExportDefaultSpecifier", "ExportNamespaceSpecifier"}

VisitOther(c) ==
  /\ AtNode(c, NodeTypes \ VisitorTypes)
  /\ Visit(c, Nothing)

\* variant that hands the raw entries to the caller before normalization settles
AwaitNormalizeSourcePathsPublishing(c) ==
  /\ pc[c] = "traverse"
  /\ running = c
  /\ todo[c] = <<>>
  /\ pc' = [pc EXCEPT ![c] = "await"]
  /\ running' = 0
  /\ received' = [received EXCEPT ![c] = Returned(transformedFile[c])]
  /\ UNCHANGED <<el, completed, ast, cfg, todo, transformedFile, discarded, log>>

\* the walk is over: findImportsPerAstFile returns and analyzeFile suspends at
\* `await normalizeSourcePaths(...)`
AwaitNormalizeSourcePaths(c) ==
  /\ pc[c] = "traverse"
  /\ running = c
  /\ todo[c] = <<>>
  /\ pc' = [pc EXCEPT ![c] = "await"]
  /\ running' = 0
  /\ UNCHANGED <<el, completed, ast, cfg, todo, transformedFile, received, discarded, log>>

\* the caller gives up on the promise while it is in flight
DiscardPromise(c) ==
  /\ pc[c] = "await"
  /\ ~discarded[c]
  /\ discarded' = [discarded EXCEPT ![c] = TRUE]
  /\ UNCHANGED <<el, completed, ast, cfg, pc, todo, transformedFile, received, log, running>>

\* normalizeSourcePaths settles: analyzeFile resumes, filters and returns { result }
ResumeAnalyzeFile(c) ==
  /\ pc[c] = "await"
  /\ running = 0
  /\ LET normalized == normalizeSourcePaths(transformedFile[c], RelativePath,
                                            cfg[c].targetProjectPath)
         result == FilterInternalSources(normalized, cfg[c].keepInternalSources)
     IN  /\ transformedFile' = [transformedFile EXCEPT ![c] = result]
         /\ received' = [received EXCEPT ![c] = IF discarded[c] THEN NoResult ELSE Returned(result)]
  /\ pc' = [pc EXCEPT ![c] = "done"]
  /\ UNCHANGED <<el, completed, ast, cfg, todo, discarded, log, running>>

Next ==
  \E c \in Calls :
    \/ AnalyzeFile(c)
    \/ VisitImportDeclaration(c)
    \/ VisitExportNamedDeclaration(c)
    \/ VisitExportAllDeclaration(c)
    \/ VisitCallExpression(c)
    \/ VisitExpressionStatement(c)
    \/ VisitOther(c)
    \/ AwaitNormalizeSourcePaths(c)
    \/ DiscardPromise(c)
    \/ ResumeAnalyzeFile(c)

Spec == Init /\ [][Next]_vars
SpecExtract == InitExtract /\ [][Next]_vars
SpecConc == InitConc /\ [][Next]_vars

-----------------------------------------------------------------------------
(* The stepper on a page.  Each handler runs to completion; an assignment  *)
(* to a reactive property is processed later, by `updated`.                *)

ModelValues == {<<>>} \cup {<<n>> : n \in Numbers}
Bounds == Numbers \cup {Infinity}

\* a stepper rendered with its attributes, connected and updated once
InitStepper ==
  /\ InitWith({<<>>}, {EmptyConfig}, {<<>>}, {EmptyConfig})
  /\ pc = [c \in Calls |-> "absent"]
  /\ \E min \in Bounds, max \in Bounds, step \in Steps, modelValue \in ModelValues :
       el = updated(connectedCallback(
              SetProperty(SetProperty(SetProperty(SetProperty(Constructed,
                "min", min), "max", max), "step", step), "modelValue", modelValue)))
  /\ completed = "updated"

\* the handlers are exercised while the value is in the modelled range
InRangeOfModel(e) == currentValue(e) \in Numbers

\* The page assigns a property; Lit requests an update when the value differs.
\* One of min, max and step is reconfigured per update.
Assign(name, v) ==
  /\ el[name] # v
  /\ el.changedProperties \subseteq {name, "modelValue"}
  /\ el' = SetProperty(el, name, v)

SetModelValue ==
  /\ \E v \in ModelValues : Assign("modelValue", v)
  /\ completed' = "set"
  /\ UNCHANGED analyzerVars

SetMin ==
  /\ \E v \in Bounds : Assign("min", v)
  /\ completed' = "set"
  /\ UNCHANGED analyzerVars

SetMax ==
  /\ \E v \in Bounds : Assign("max", v)
  /\ completed' = "set"
  /\ UNCHANGED analyzerVars

SetStep ==
  /\ \E v \in Steps : Assign("step", v)
  /\ completed' = "set"
  /\ UNCHANGED analyzerVars

\* Lit processes the pending changes
Updated ==
  /\ el.changedProperties # {}
  /\ el' = updated(el)
  /\ completed' = "updated"
  /\ UNCHANGED analyzerVars

\* @click=${this.__increment} on the increment button, which is not disabled
ClickIncrement ==
  /\ ~el.incrementDisabled
  /\ InRangeOfModel(increment(el))
  /\ el' = increment(el)
  /\ completed' = "__increment"
  /\ UNCHANGED analyzerVars

\* @click=${this.__decrement} on the decrement button, which is not disabled
ClickDecrement ==
  /\ ~el.decrementDisabled
  /\ InRangeOfModel(decrement(el))
  /\ el' = decrement(el)
  /\ completed' = "__decrement"
  /\ UNCHANGED analyzerVars

\* a keydown event on the element
KeyDown ==
  \E key \in Keys :
    /\ InRangeOfModel(keyDownHandler(el, key))
    /\ el' = keyDownHandler(el, key)
    /\ completed' = CASE key = "ArrowUp" -> "__increment"
                      [] key = "ArrowDown" -> "__decrement"
                      [] OTHER -> "__keyDownHandler"
    /\ UNCHANGED analyzerVars

\* a change event of the input
OnChange ==
  /\ el' = onChange(el)
  /\ completed' = "_onChange"
  /\ UNCHANGED analyzerVars

NextStepper ==
  \/ SetModelValue
  \/ SetMin
  \/ SetMax
  \/ SetStep
  \/ Updated
  \/ ClickIncrement
  \/ ClickDecrement
  \/ KeyDown
  \/ OnChange

SpecStepper == InitStepper /\ [][NextStepper]_vars

-----------------------------------------------------------------------------
(* findImportsPerAstFile and analyzeFile as functions of their input: what *)
(* one invocation computes when nothing else runs.                         *)

VisitorEffect(node) ==
  CASE node.type = "ImportDeclaration" -> ImportDeclaration(node)
    [] node.type = "ExportNamedDeclaration" -> ExportNamedDeclaration(node)
    [] node.type = "ExportAllDeclaration" -> ExportAllDeclaration(node)
    [] node.type = "CallExpression" -> CallExpression(node)
    [] node.type = "ExpressionStatement" -> ExpressionStatement(node)
    [] OTHER -> Nothing

RECURSIVE WalkThrows(_)
WalkThrows(nodes) ==
  IF nodes = <<>> THEN FALSE
  ELSE \/ VisitorEffect(Head(nodes)).threw
       \/ WalkThrows(Children(Head(nodes)) \o Tail(nodes))

RECURSIVE WalkEntries(_)
WalkEntries(nodes) ==
  IF nodes = <<>> THEN <<>>
  ELSE VisitorEffect(Head(nodes)).entries \o WalkEntries(Children(Head(nodes)) \o Tail(nodes))

AnalyzeAlone(file, config) ==
  LET normalized == normalizeSourcePaths(WalkEntries(file), RelativePath, config.targetProjectPath)
  IN  IF config.keepInternalSources THEN normalized ELSE SelectSeq(normalized, IsExternal)

-----------------------------------------------------------------------------
(* Vocabulary of the properties *)

IsPrefix(s, t) == Len(s) <= Len(t) /\ SubSeq(t, 1, Len(s)) = s

RECURSIVE IsSubsequence(_, _)
IsSubsequence(s, t) ==
  IF s = <<>> THEN TRUE
  ELSE IF t = <<>> THEN FALSE
  ELSE IF Head(s) = Head(t) THEN IsSubsequence(Tail(s), Tail(t))
  ELSE IsSubsequence(s, Tail(t))

RECURSIVE Concat(_)
Concat(seqs) == IF seqs = <<>> THEN <<>> ELSE Head(seqs) \o Concat(Tail(seqs))

Indices(s) == 1..Len(s)

Delivered(c) == received[c] # NoResult

SourcelessExport(node) ==
  node.type \in {"ExportNamedDeclaration", "ExportAllDeclaration"} /\ ~Has(node, "source")

\* the source literals written in the declarations of a file
DeclaredSources(file) == {file[i].source.value : i \in {j \in Indices(file) : Has(file[j], "source")}}

-----------------------------------------------------------------------------
(* C1: every entry the traversal produces, whatever the kind of its        *)
(* declaration, has at least one import specifier; a declaration with a    *)
(* source and no specifiers yields the single tag [file].                  *)
C1_SpecifiersNeverEmpty ==
  \A c \in Calls :
     /\ \A i \in Indices(transformedFile[c]) : Len(transformedFile[c][i].importSpecifiers) >= 1
     /\ ( /\ pc[c] = "await"
          /\ Len(ast[c]) = 1
          /\ Has(ast[c][1], "source")
          /\ Has(ast[c][1], "specifiers")
          /\ ast[c][1].specifiers = <<>> )
        => /\ Len(transformedFile[c]) = 1
           /\ transformedFile[c][1].importSpecifiers = <<TagFile>>

-----------------------------------------------------------------------------
(* C2, as claimed: every entry of a result has a non-empty source, and a   *)
(* declaration without a source produces no entry.                         *)
C2_SourceNeverEmpty ==
  \A c \in Calls :
     /\ Len(transformedFile[c]) <= Cardinality({i \in Indices(ast[c]) : ~SourcelessExport(ast[c][i])})
     /\ Delivered(c) => \A i \in Indices(received[c].result) : received[c].result[i].source # <<>>

(* C2, amended: an entry of a result has an empty source only when a       *)
(* declaration of the file is written with the empty source; and an export *)
(* declaration without a source produces no entry (there are never more    *)
(* entries than declarations other than source-less exports).              *)
C2_SourceFromDeclaration ==
  \A c \in Calls :
     /\ Len(transformedFile[c]) <= Cardinality({i \in Indices(ast[c]) : ~SourcelessExport(ast[c][i])})
     /\ Delivered(c) =>
          \A i \in Indices(received[c].result) :
             received[c].result[i].source = <<>> => <<>> \in DeclaredSources(ast[c])

\* a file with a source-less export next to a re-export was analyzed: one entry, with a source
C2_Witness ==
  /\ pc[1] = "done" /\ Delivered(1)
  /\ \E i \in Indices(ast[1]) : SourcelessExport(ast[1][i])
  /\ Len(ast[1]) = 2
  /\ Len(received[1].result) = 1
  /\ received[1].result[1].source # <<>>

-----------------------------------------------------------------------------
(* C3: entries appear in the order of their declarations.  While the walk  *)
(* runs the accumulator only grows at its end; when the walk is over it    *)
(* holds the entries of the first declaration, then those of the second,   *)
(* and so on; and the result is an order-preserving subsequence of the     *)
(* normalized walk output.                                                 *)
EntriesPerDeclaration(file) == [i \in Indices(file) |-> WalkEntries(<<file[i]>>)]

C3_AppendOnly ==
  \A c \in Calls :
     (pc[c] = "traverse" /\ pc'[c] \in {"traverse", "await"})
       => IsPrefix(transformedFile[c], transformedFile'[c])

C3_DocumentOrder ==
  \A c \in Calls :
     /\ pc[c] = "await" => transformedFile[c] = Concat(EntriesPerDeclaration(ast[c]))
     /\ Delivered(c) =>
          IsSubsequence(received[c].result,
                        normalizeSourcePaths(Concat(EntriesPerDeclaration(ast[c])), RelativePath,
                                             cfg[c].targetProjectPath))

C3_OrderPreserved == []C3_DocumentOrder /\ [][C3_AppendOnly]_vars

\* two declarations of different kinds, both kept: two entries, in declaration order
C3_Witness ==
  /\ pc[1] = "done" /\ Delivered(1)
  /\ ast[1] = <<MixedImport, SwcDynamicLiteral>>
  /\ Len(received[1].result) = 2
  /\ received[1].result[1].importSpecifiers = <<TagDefault, "x">>
  /\ received[1].result[2].importSpecifiers = <<TagDefault>>

-----------------------------------------------------------------------------
(* C4: every dynamic import in the tree, in either form, yields exactly    *)
(* one entry with importSpecifiers [default]; its source is the literal    *)
(* argument, or [variable] for a computed argument; none is dropped.       *)

IsStringLiteral(node) == node.type \in {"Literal", "StringLiteral"}

ClaimedDynamicSource(argument) ==
  IF IsStringLiteral(argument) THEN argument.value ELSE SourceVariable

\* the dynamic imports of a tree, in document order, each as the entry claimed for it
RECURSIVE ClaimedDynamicEntries(_)
ClaimedDynamicEntries(nodes) ==
  IF nodes = <<>> THEN <<>>
  ELSE LET node == Head(nodes)
           rest == ClaimedDynamicEntries(Children(node) \o Tail(nodes))
       IN  CASE node.type = "ImportExpression" ->
                  <<[importSpecifiers |-> <<TagDefault>>,
                     source |-> ClaimedDynamicSource(node.source)]>> \o rest
             [] node.type = "CallExpression" /\ node.callee.type = "Import"
                  /\ Len(node.arguments) > 0 ->
                  <<[importSpecifiers |-> <<TagDefault>>,
                     source |-> ClaimedDynamicSource(node.arguments[1].expression)]>> \o rest
             [] OTHER -> rest

IsStaticDeclaration(node) ==
  node.type \in {"ImportDeclaration", "ExportNamedDeclaration", "ExportAllDeclaration"}

C4_DynamicImportNeverDropped ==
  \A c \in Calls :
     ( /\ pc[c] = "await"
       /\ \A i \in Indices(ast[c]) : ~IsStaticDeclaration(ast[c][i]) )
     => transformedFile[c] = ClaimedDynamicEntries(ast[c])

-----------------------------------------------------------------------------
(* C5: without keepInternalSources the result holds no entry with an       *)
(* internal (relative) source and holds every other entry the traversal    *)
(* produced; with keepInternalSources it holds as many entries as the      *)
(* traversal produced.                                                     *)
C5_InternalSourcesFiltered ==
  \A c \in Calls :
     Delivered(c) =>
       LET result == received[c].result
           produced == WalkEntries(ast[c])
       IN  IF cfg[c].keepInternalSources
           THEN Len(result) = Len(produced)
           ELSE /\ \A i \in Indices(result) : ~isRelativeSourcePath(result[i].source)
                /\ result = SelectSeq(produced, IsExternal)

\* a relative import was dropped and an external one kept
C5_Witness ==
  /\ pc[1] = "done" /\ Delivered(1)
  /\ ~cfg[1].keepInternalSources
  /\ ast[1] = <<BareImport, MixedImport>>
  /\ Len(received[1].result) = 1
  /\ received[1].result[1].source = SrcBare

-----------------------------------------------------------------------------
(* C6: a malformed node in an otherwise well-formed tree is skipped        *)
(* without throwing: analyzeFile completes and returns the entries of the  *)
(* other declarations.                                                     *)

Malformed(node) ==
  \/ node.type = "ImportDeclaration" /\ ~Has(node, "source")
  \/ /\ node.type = "ExpressionStatement"
     /\ node.expression.type = "CallExpression"
     /\ node.expression.callee.type = "Import"
     /\ Len(node.expression.arguments) = 0

WellFormedPart(file) == SelectSeq(file, LAMBDA node : ~Malformed(node))

C6_MalformedNodeSkipped ==
  \A c \in Calls :
     /\ pc[c] # "rejected"
     /\ pc[c] = "await" => transformedFile[c] = WalkEntries(WellFormedPart(ast[c]))

-----------------------------------------------------------------------------
(* C7: for the same specifier names and source, `import {...} from` and    *)
(* `export {...} from` yield identical entries: the same importSpecifiers, *)
(* the same source, and no field that tells the one from the other.        *)

IsTwins(file) ==
  /\ Len(file) = 2
  /\ file[1].type = "ImportDeclaration"
  /\ file[2].type = "ExportNamedDeclaration"
  /\ Has(file[1], "source") /\ Has(file[2], "source")
  /\ file[1].source = file[2].source

C7_ReexportSameAsImport ==
  \A c \in Calls :
     (pc[c] = "await" /\ IsTwins(ast[c]))
     => /\ Len(transformedFile[c]) = 2
        /\ transformedFile[c][1] = transformedFile[c][2]

-----------------------------------------------------------------------------
(* C8: concurrent invocations are independent.  However two invocations    *)
(* interleave at their await, the accumulator of each holds the entries of *)
(* its own file only, and each returns what it returns when run alone.     *)
C8_InvocationsIndependent ==
  \A c \in Calls :
     /\ pc[c] = "await" => transformedFile[c] = WalkEntries(ast[c])
     /\ pc[c] = "rejected" => WalkThrows(ast[c])
     /\ pc[c] = "done" =>
          /\ ~WalkThrows(ast[c])
          /\ transformedFile[c] = AnalyzeAlone(ast[c], cfg[c])
          /\ ~discarded[c] => received[c] = Returned(AnalyzeAlone(ast[c], cfg[c]))

\* two invocations on different files are suspended at their await together, each
\* holding the entries of its own file
C8_Witness ==
  /\ pc[1] = "await" /\ pc[2] = "await"
  /\ ast[1] = <<MixedImport, StarReexport>>
  /\ ast[2] = <<NamedReexport, SwcDynamicLiteral>>
  /\ Len(transformedFile[1]) = 2 /\ Len(transformedFile[2]) = 2
  /\ transformedFile[1] # transformedFile[2]

-----------------------------------------------------------------------------
(* C9: the result is all-or-nothing.  What the caller holds is either      *)
(* nothing, or the complete sequence after traversal, normalization and    *)
(* filtering; a rejected or discarded invocation hands over nothing; and   *)
(* what was handed over never changes.                                     *)
C9_Complete ==
  \A c \in Calls :
     /\ Delivered(c) =>
          /\ pc[c] = "done"
          /\ todo[c] = <<>>
          /\ received[c] = Returned(transformedFile[c])
          /\ received[c].result = AnalyzeAlone(ast[c], cfg[c])
     /\ (pc[c] = "rejected" \/ discarded[c]) => ~Delivered(c)

C9_Stable == \A c \in Calls : Delivered(c) => received'[c] = received[c]

C9_AllOrNothing == []C9_Complete /\ [][C9_Stable]_vars

\* one invocation handed over a two-entry result, one was rejected with entries collected
C9_Witness ==
  \/ /\ pc[1] = "done" /\ Delivered(1) /\ Len(received[1].result) = 2
  \/ /\ pc[1] = "rejected" /\ transformedFile[1] # <<>> /\ ~Delivered(1)

-----------------------------------------------------------------------------
(* C10: per specifier, in specifier order, the tag is [default] for a      *)
(* default specifier (by node type, or an ExportSpecifier exported as      *)
(* "default"), else [*] for a namespace specifier, else the first          *)
(* non-undefined of imported name, original name, local name, exported     *)
(* name.                                                                   *)

\* the name a name node carries (an identifier's, or a string literal's value)
NameOf(s, field) ==
  IF ~Has(s, field) THEN Undefined
  ELSE IF Has(s[field], "value") THEN s[field].value ELSE Prop(s[field], "name")

FirstDefined(values) ==
  IF \E i \in Indices(values) : values[i] # Undefined
  THEN values[CHOOSE i \in Indices(values) :
                /\ values[i] # Undefined
                /\ \A j \in 1..(i - 1) : values[j] = Undefined]
  ELSE Undefined

ClaimedTag(s) ==
  IF \/ s.type \in {"ImportDefaultSpecifier", "ExportDefaultSpecifier"}
     \/ s.type = "ExportSpecifier" /\ NameOf(s, "exported") = "default"
  THEN TagDefault
  ELSE IF s.type \in {"ImportNamespaceSpecifier", "ExportNamespaceSpecifier"}
       THEN TagAll
       ELSE FirstDefined(<<NameOf(s, "imported"), NameOf(s, "orig"),
                           NameOf(s, "local"), NameOf(s, "exported")>>)

C10_SpecifierTags ==
  \A c \in Calls :
     ( /\ pc[c] = "await"
       /\ Len(ast[c]) = 1
       /\ ast[c][1].type \in {"ImportDeclaration", "ExportNamedDeclaration"}
       /\ Has(ast[c][1], "source")
       /\ ast[c][1].specifiers # <<>> )
     => /\ Len(transformedFile[c]) = 1
        /\ transformedFile[c][1].importSpecifiers =
             [i \in Indices(ast[c][1].specifiers) |-> ClaimedTag(ast[c][1].specifiers[i])]

-----------------------------------------------------------------------------
(* LionInputStepper: vocabulary of the claims.                             *)

Increments == completed' = "__increment"
Decrements == completed' = "__decrement"

\* C11: with an integer step >= 1 and any min and max, a completed __increment
\* leaves currentValue unchanged or greater than before, and a completed
\* __decrement leaves it unchanged or smaller than before, wherever the value
\* stood, aligned to the step or not.
C11_NeverAgainstDirection ==
  [][ /\ Increments => currentValue(el') >= currentValue(el)
      /\ Decrements => currentValue(el') <= currentValue(el) ]_vars

\* no change of min, max or step is pending: the cache the handlers read is current
Synced(e) == e.values = [max |-> e.max, min |-> e.min, step |-> e.step]

FiniteRange(e) == e.min # Infinity /\ e.max # Infinity /\ e.min <= e.max
WithinRange(e) == e.min <= currentValue(e) /\ currentValue(e) <= e.max

\* C12: with finite min <= max and step >= 1, a completed __increment or
\* __decrement (click or ArrowUp / ArrowDown) that starts with currentValue within
\* [min, max] ends with currentValue within [min, max], so the value stays within
\* the range over any sequence of such calls; and a call whose newValue is past
\* the bound in its direction leaves modelValue as it was.
C12_StaysWithinRange ==
  [][ ((Increments \/ Decrements) /\ Synced(el) /\ FiniteRange(el) /\ WithinRange(el))
      => /\ WithinRange(el')
         /\ (Increments /\ incrementValue(el) > el.max) => el'.modelValue = el.modelValue
         /\ (Decrements /\ decrementValue(el) < el.min) => el'.modelValue = el.modelValue
    ]_vars

\* an __increment has just written max from inside a range that holds more than one value
C12_Witness ==
  /\ completed = "__increment"
  /\ Synced(el) /\ FiniteRange(el) /\ el.min < el.max
  /\ el.modelValue = <<el.max>>
  /\ "modelValue" \in el.changedProperties
  /\ el.incrementDisabled /\ ~el.decrementDisabled

\* v is on the step grid anchored at min (at 0 when min is not set)
Aligned(e, v) == (v - stepMin(e)) % e.values.step = 0

\* v is one of the bounds
AtBound(e, v) ==
  \/ (e.values.min # Infinity /\ v = e.values.min)
  \/ (e.values.max # Infinity /\ v = e.values.max)

\* C13: an __increment or __decrement that writes modelValue writes a value on
\* the step grid anchored at min (at 0 when min is not set), unless it writes min
\* or max; and from a value off the grid it writes the nearest grid value in its
\* direction.
C13_WritesAligned ==
  [][ LET before == currentValue(el)
          after == currentValue(el')
          step == el.values.step
      IN  /\ (Increments /\ Synced(el) /\ incrementWrites(el) /\ ~AtBound(el, after))
               => /\ Aligned(el, after)
                  /\ ~Aligned(el, before) => (before < after /\ after < before + step)
          /\ (Decrements /\ Synced(el) /\ decrementWrites(el) /\ ~AtBound(el, after))
               => /\ Aligned(el, after)
                  /\ ~Aligned(el, before) => (before - step < after /\ after < before)
    ]_vars

\* the buttons show currentValue against the bounds min and max
ButtonsShow(e, min, max) ==
  /\ e.decrementDisabled <=> (min # Infinity /\ currentValue(e) <= min)
  /\ e.incrementDisabled <=> (max # Infinity /\ currentValue(e) >= max)

\* C14: after every completed __increment, __decrement, _onChange and every
\* processed update, the decrement button is disabled exactly when min is finite
\* and currentValue <= min, the increment button exactly when max is finite and
\* currentValue >= max, against the min and max properties as they are now.
C14_ButtonsShowProperties ==
  completed \in {"__increment", "__decrement", "_onChange", "updated"}
    => ButtonsShow(el, el.min, el.max)

\* C14, amended: after every __increment or __decrement that writes modelValue,
\* every _onChange and every processed update, the buttons show currentValue
\* against the min and max of this.values, the copy taken at the last
\* connectedCallback / updated.  After a processed update that copy is the
\* properties, so the buttons then show the current min and max; and so they do
\* after a handler that started with no update pending.
C14_ButtonsShowValues ==
  [][ /\ ( \/ (Increments /\ incrementWrites(el))
            \/ (Decrements /\ decrementWrites(el))
            \/ completed' \in {"_onChange", "updated"} )
          => ButtonsShow(el', el'.values.min, el'.values.max)
      /\ completed' = "updated"
          => (Synced(el') /\ ButtonsShow(el', el'.min, el'.max))
      /\ (el.changedProperties = {} /\ (Increments \/ Decrements \/ completed' = "_onChange"))
          => ButtonsShow(el', el'.min, el'.max)
    ]_vars

\* an __increment wrote modelValue while a new min waited for its update: the
\* decrement button shows the value against the old min
C14_Witness ==
  /\ completed = "__increment"
  /\ el.changedProperties = {"min", "modelValue"}
  /\ el.values.min # el.min
  /\ ButtonsShow(el, el.values.min, el.values.max)
  /\ ~ButtonsShow(el, el.min, el.max)

====
